---- MODULE Spec2Model ----
(***************************************************************************)
(* Model of the node editor of src/src/App.tsx: the React state of the     *)
(* App component (nodes, edges), the autosave slot localStorage['flow'],   *)
(* the data objects the nodes point to (they are mutated in place by       *)
(* executeFlow), and the asynchronous runs of executeFlow.                  *)
(***************************************************************************)
EXTENDS Integers, Sequences, FiniteSets, TLC

VARIABLES
  nodes,    \* App.tsx:24  the nodes state: a sequence of node objects
  edges,    \* App.tsx:25  the edges state: a sequence of edges
  heap,     \* the data objects of the nodes, by address (node.data is a reference)
  storage,  \* App.tsx:30  the item localStorage['flow'] (a JSON document)
  stored,   \* App.tsx:23  the document read from the slot when App was constructed
  runs,     \* App.tsx:65  the calls of executeFlow that await a response, each with its closure
  finished, \* App.tsx:65  the call of executeFlow that ended in the last step, if one did
  clock     \* the number of actions the user has taken (bounds the model)

vars == <<nodes, edges, heap, storage, stored, runs, finished, clock>>

(***************************************************************************)
(* Bounds of the model.                                                    *)
(***************************************************************************)
MaxNodes == 3
MaxEdges == 2
MaxRuns == 2
MaxNest == 1
MaxActions == 3
MaxOperand == 2
MaxGraphEdges == 3

\* no more data objects than this are ever alive at once
MaxObjs == MaxNodes * (1 + MaxNest) * (2 + MaxRuns)

(***************************************************************************)
(* JavaScript values.                                                      *)
(***************************************************************************)
None == [k |-> "none"]
Undefined == [k |-> "undefined"]
Null == [k |-> "null"]
NaN == [k |-> "NaN"]
Infinity(sign) == [k |-> "Infinity", sign |-> sign]
Str(s) == [k |-> "string", s |-> s]
\* a finite number, as the fraction n/d in lowest terms with d > 0
Num(n) == [k |-> "number", n |-> n, d |-> 1]
\* a reference to the data object at an address
Ref(a) == [k |-> "ref", addr |-> a]
\* an object written inline (in a JSON document)
Obj(props) == [k |-> "object", props |-> props]

\* obj[key] of a JavaScript object: undefined when the key is absent
Get(obj, key) == IF key \in DOMAIN obj THEN obj[key] ELSE Undefined

\* a faulty assignment: the object keeps no other key
PutAlone(obj, key, v) == (key :> v)

\* { ...obj, key: v }
Put(obj, key, v) == (key :> v) @@ obj

Abs(n) == IF n < 0 THEN -n ELSE n

RECURSIVE Gcd(_, _)
Gcd(a, b) == IF b = 0 THEN a ELSE Gcd(b, a % b)

\* the number n/d, d # 0, in lowest terms
Frac(n, d) ==
  LET g == Gcd(Abs(n), Abs(d))
      s == IF d < 0 THEN -1 ELSE 1
  IN [k |-> "number", n |-> (s * n) \div g, d |-> (s * d) \div g]

(***************************************************************************)
(* Function(`return ${a}${op}${b}`)() of App.tsx:97: the operands and the  *)
(* operator are converted to text, the text is parsed as a JavaScript      *)
(* expression and the expression is evaluated. A text is a sequence of     *)
(* one-character strings.                                                  *)
(***************************************************************************)
DigitChars == <<"0", "1", "2", "3", "4", "5", "6", "7", "8", "9">>
Digits == {DigitChars[i] : i \in 1..10}
DigitVal(c) == (CHOOSE i \in 1..10 : DigitChars[i] = c) - 1
Letters == {"u", "n", "d", "e", "f", "i", "l", "N", "a", "I", "t", "y"}

RECURSIVE NatText(_)
NatText(n) ==
  IF n < 10 THEN <<DigitChars[n + 1]>>
  ELSE NatText(n \div 10) \o <<DigitChars[(n % 10) + 1]>>

UndefinedText == <<"u", "n", "d", "e", "f", "i", "n", "e", "d">>
NullText == <<"n", "u", "l", "l">>
NaNText == <<"N", "a", "N">>
InfinityText == <<"I", "n", "f", "i", "n", "i", "t", "y">>

\* String(v), as a template literal converts v. The operands of the model are
\* integers and its operator strings have one character.
ToText(v) ==
  CASE v.k = "number" ->
         IF v.n < 0 THEN <<"-">> \o NatText(-v.n) ELSE NatText(v.n)
    [] v.k = "string" -> <<v.s>>
    [] v.k = "undefined" -> UndefinedText
    [] v.k = "null" -> NullText
    [] v.k = "NaN" -> NaNText
    [] v.k = "Infinity" ->
         IF v.sign < 0 THEN <<"-">> \o InfinityText ELSE InfinityText

\* the longest prefix of cs made of characters of S
RECURSIVE TakeWhile(_, _)
TakeWhile(cs, S) ==
  IF cs # <<>> /\ Head(cs) \in S THEN <<Head(cs)>> \o TakeWhile(Tail(cs), S) ELSE <<>>

Drop(cs, n) == SubSeq(cs, n + 1, Len(cs))

RECURSIVE DigitsVal(_, _)
DigitsVal(ds, acc) ==
  IF ds = <<>> THEN acc ELSE DigitsVal(Tail(ds), 10 * acc + DigitVal(Head(ds)))

\* the tokens of a text (longest match: "--" and "++" are one token each); a
\* numeric literal directly followed by a letter is a lexical error
RECURSIVE Lex(_)
Lex(cs) ==
  IF cs = <<>> THEN <<>>
  ELSE LET c == Head(cs) IN
    CASE c \in Digits ->
           LET ds == TakeWhile(cs, Digits)
               rest == Drop(cs, Len(ds))
           IN IF rest # <<>> /\ Head(rest) \in Letters
              THEN <<[t |-> "error"]>>
              ELSE <<[t |-> "num", v |-> DigitsVal(ds, 0)]>> \o Lex(rest)
      [] c \in Letters ->
           LET w == TakeWhile(cs, Letters \cup Digits)
           IN <<[t |-> "id", name |-> w]>> \o Lex(Drop(cs, Len(w)))
      [] c \in {"+", "-"} ->
           IF Len(cs) >= 2 /\ cs[2] = c
           THEN <<[t |-> "punct", p |-> c \o c]>> \o Lex(Drop(cs, 2))
           ELSE <<[t |-> "punct", p |-> c]>> \o Lex(Tail(cs))
      [] c \in {"*", "/"} -> <<[t |-> "punct", p |-> c]>> \o Lex(Tail(cs))
      [] OTHER -> <<[t |-> "error"]>>

IsPunct(ts, S) == ts # <<>> /\ Head(ts).t = "punct" /\ Head(ts).p \in S

SyntaxError == [ok |-> FALSE]
Parsed(ast, rest) == [ok |-> TRUE, ast |-> ast, rest |-> rest]

\* PrimaryExpression, then an optional postfix ++ or --, whose operand must be
\* a reference
ParsePostfix(ts) ==
  IF ts = <<>> \/ Head(ts).t \notin {"num", "id"} THEN SyntaxError
  ELSE IF IsPunct(Tail(ts), {"++", "--"})
       THEN IF Head(ts).t = "id"
            THEN Parsed([op |-> "update", arg |-> Head(ts)], Tail(Tail(ts)))
            ELSE SyntaxError
       ELSE Parsed(Head(ts), Tail(ts))

RECURSIVE ParseUnary(_)
ParseUnary(ts) ==
  IF IsPunct(ts, {"+", "-"})
  THEN LET r == ParseUnary(Tail(ts))
       IN IF r.ok THEN Parsed([op |-> "unary" \o Head(ts).p, arg |-> r.ast], r.rest)
          ELSE SyntaxError
  ELSE IF IsPunct(ts, {"++", "--"})
  THEN LET r == ParseUnary(Tail(ts))
       IN IF r.ok /\ "t" \in DOMAIN r.ast /\ r.ast.t = "id"
          THEN Parsed([op |-> "update", arg |-> r.ast], r.rest)
          ELSE SyntaxError
  ELSE ParsePostfix(ts)

\* left (binop Unary)*, for the operators of set S
RECURSIVE ParseChain(_, _, _)
ParseChain(left, ts, S) ==
  IF IsPunct(ts, S)
  THEN LET r == ParseUnary(Tail(ts))
       IN IF r.ok
          THEN ParseChain([op |-> Head(ts).p, l |-> left, r |-> r.ast], r.rest, S)
          ELSE SyntaxError
  ELSE Parsed(left, ts)

ParseMultiplicative(ts) ==
  LET r == ParseUnary(ts)
  IN IF r.ok THEN ParseChain(r.ast, r.rest, {"*", "/"}) ELSE SyntaxError

RECURSIVE ParseAdditive(_, _)
ParseAdditive(left, ts) ==
  IF IsPunct(ts, {"+", "-"})
  THEN LET r == ParseMultiplicative(Tail(ts))
       IN IF r.ok
          THEN ParseAdditive([op |-> Head(ts).p, l |-> left, r |-> r.ast], r.rest)
          ELSE SyntaxError
  ELSE Parsed(left, ts)

\* the expression of `return <text>`: the whole text must be one expression
ParseExpression(cs) ==
  LET ts == Lex(cs)
      m == ParseMultiplicative(ts)
      r == IF m.ok THEN ParseAdditive(m.ast, m.rest) ELSE SyntaxError
  IN IF (\E i \in 1..Len(ts) : ts[i].t = "error") \/ ~r.ok \/ r.rest # <<>>
     THEN SyntaxError
     ELSE r

\* ToNumber(v)
ToNumber(v) ==
  CASE v.k = "undefined" -> NaN
    [] v.k = "null" -> Num(0)
    [] OTHER -> v

SignOf(v) == IF v.k = "Infinity" THEN v.sign
             ELSE IF v.n > 0 THEN 1 ELSE IF v.n < 0 THEN -1 ELSE 0

Negate(v) ==
  CASE v.k = "number" -> Frac(-v.n, v.d)
    [] v.k = "Infinity" -> Infinity(-v.sign)
    [] OTHER -> v

\* x + y of numbers
Add(x, y) ==
  CASE x.k = "NaN" \/ y.k = "NaN" -> NaN
    [] x.k = "Infinity" /\ y.k = "Infinity" -> IF x.sign = y.sign THEN x ELSE NaN
    [] x.k = "Infinity" -> x
    [] y.k = "Infinity" -> y
    [] OTHER -> Frac(x.n * y.d + y.n * x.d, x.d * y.d)

Mul(x, y) ==
  CASE x.k = "NaN" \/ y.k = "NaN" -> NaN
    [] x.k = "Infinity" \/ y.k = "Infinity" ->
         IF SignOf(x) * SignOf(y) = 0 THEN NaN ELSE Infinity(SignOf(x) * SignOf(y))
    [] OTHER -> Frac(x.n * y.n, x.d * y.d)

\* x / y of numbers: a division by zero is no error in JavaScript
Div(x, y) ==
  CASE x.k = "NaN" \/ y.k = "NaN" -> NaN
    [] x.k = "Infinity" /\ y.k = "Infinity" -> NaN
    [] y.k = "Infinity" -> Num(0)
    [] SignOf(y) = 0 -> IF SignOf(x) = 0 THEN NaN ELSE Infinity(SignOf(x))
    [] x.k = "Infinity" -> Infinity(SignOf(x) * SignOf(y))
    [] OTHER -> Frac(x.n * y.d, x.d * y.n)

BinaryOp(op, x, y) ==
  CASE op = "+" -> Add(x, y)
    [] op = "-" -> Add(x, Negate(y))
    [] op = "*" -> Mul(x, y)
    [] op = "/" -> Div(x, y)

\* the value of an identifier in the global scope
IsGlobal(name) == name \in {UndefinedText, NaNText, InfinityText, NullText}
GlobalValue(name) ==
  CASE name = UndefinedText -> Undefined
    [] name = NaNText -> NaN
    [] name = InfinityText -> Infinity(1)
    [] name = NullText -> Null

\* the identifiers of an expression
RECURSIVE Names(_)
Names(ast) ==
  IF "t" \in DOMAIN ast THEN (IF ast.t = "id" THEN {ast.name} ELSE {})
  ELSE IF "arg" \in DOMAIN ast THEN Names(ast.arg)
  ELSE Names(ast.l) \cup Names(ast.r)

RECURSIVE Eval(_)
Eval(ast) ==
  IF "t" \in DOMAIN ast
  THEN IF ast.t = "num" THEN Num(ast.v) ELSE GlobalValue(ast.name)
  ELSE CASE ast.op = "unary-" -> Negate(ToNumber(Eval(ast.arg)))
         [] ast.op = "unary+" -> ToNumber(Eval(ast.arg))
         [] ast.op = "update" -> NaN
         [] OTHER -> BinaryOp(ast.op, ToNumber(Eval(ast.l)), ToNumber(Eval(ast.r)))

\* Function(`return ${a}${op}${b}`)(): the value returned, or the error thrown
\* (a SyntaxError by the Function constructor, a ReferenceError by the call)
Returned(v) == [threw |-> FALSE, value |-> v]
Thrown(name) == [threw |-> TRUE, error |-> name]

EvalArithmetic(a, op, b) ==
  LET r == ParseExpression(ToText(a) \o ToText(op) \o ToText(b))
  IN IF ~r.ok THEN Thrown("SyntaxError")
     ELSE IF \E w \in Names(r.ast) : ~IsGlobal(w) THEN Thrown("ReferenceError")
     ELSE Returned(Eval(r.ast))

(***************************************************************************)
(* Nodes, data objects and documents.                                      *)
(*                                                                         *)
(* A node of the state is [id, type, position, data], data being the       *)
(* address of its data object in the heap: executeFlow assigns to          *)
(* node.data.result and node.data.response in place, so two arrays that    *)
(* hold the same node see the same data. A data object is a function from  *)
(* its keys to their values. A document is a function whose domain holds   *)
(* "nodes" and "edges" when the document has these keys; a node of a       *)
(* document carries its data inline.                                       *)
(***************************************************************************)
Position(x, y) == Obj([x |-> Num(x), y |-> Num(y)])

Addrs == 1..MaxObjs

\* the address a new object gets: the lowest one not in use
NewAddr(h) == CHOOSE a \in Addrs \ DOMAIN h : \A b \in Addrs \ DOMAIN h : a <= b

RefsOf(obj) == {obj[key].addr : key \in {x \in DOMAIN obj : obj[x].k = "ref"}}

RECURSIVE Reach(_, _)
Reach(S, h) ==
  LET next == S \cup UNION {RefsOf(h[a]) : a \in S}
  IN IF next = S THEN S ELSE Reach(next, h)

DataOf(ns) == {ns[i].data : i \in 1..Len(ns)}

\* the objects still referenced by the state or by the closure of a run that
\* has not ended; the others are garbage
Collect(h, ns, rs) ==
  LET roots == DataOf(ns) \cup
               UNION {DataOf(rs[r].nodes) : r \in 1..Len(rs)}
  IN [a \in Reach(roots, h) |-> h[a]]

\* JSON.stringify of a value: an object is written with its contents, a key
\* whose value is undefined is left out, NaN and the infinities become null
RECURSIVE ToJSON(_, _)
ToJSON(v, h) ==
  CASE v.k = "ref" ->
         LET obj == h[v.addr]
             keys == {x \in DOMAIN obj : obj[x].k # "undefined"}
         IN Obj([x \in keys |-> ToJSON(obj[x], h)])
    [] v.k \in {"NaN", "Infinity"} -> Null
    [] OTHER -> v

NodeToJSON(n, h) ==
  [id |-> n.id, type |-> n.type, position |-> n.position,
   data |-> ToJSON(Ref(n.data), h)]

\* JSON.stringify({ nodes, edges })
Stringify(ns, es, h) ==
  [nodes |-> [i \in 1..Len(ns) |-> NodeToJSON(ns[i], h)], edges |-> es]

\* the node objects JSON.parse makes of the nodes of a document: each gets a
\* data object of its own
RECURSIVE Materialize(_, _)
Materialize(ds, h) ==
  IF ds = <<>> THEN [nodes |-> <<>>, heap |-> h]
  ELSE LET a == NewAddr(h)
           d == Head(ds)
           rest == Materialize(Tail(ds), (a :> d.data.props) @@ h)
       IN [nodes |-> <<[id |-> d.id, type |-> d.type, position |-> d.position,
                        data |-> a]>> \o rest.nodes,
           heap |-> rest.heap]

\* doc?.nodes || dflt and doc?.edges || dflt: an array is truthy, a missing key
\* and the document null give the default
KeyOr(doc, key, dflt) == IF key \in DOMAIN doc THEN doc[key] ELSE dflt

NodeDoc(id, type, x, y, data) ==
  [id |-> id, type |-> type, position |-> Position(x, y), data |-> Obj(data)]

Edge(s, t) == [source |-> s, target |-> t]

initialNodes == <<NodeDoc("1", "default", 250, 5, [label |-> Str("Start Node")])>>

NodeIds(ns) == {ns[i].id : i \in 1..Len(ns)}

(***************************************************************************)
(* The inputs of the model.                                                *)
(***************************************************************************)
DefaultCode == "// write JS here"
ThrowingCode == "throw new Error('boom')"
\* the scripts whose evaluation by new Function(code)() throws
FailingScripts == {ThrowingCode, "("}
Scripts == {ThrowingCode}
Operators == {"+", "-", "*", "/"}
\* the values the user gives the inputs of a node
EditOperands == {-1, 2}
EditOperators == {"-", "/"}
Urls == {"http://a"}
Methods == {"POST"}
Bodies == {"body"}
FetchErrors == {"Failed to fetch"}

\* the documents the user loads: one without the key edges, one without the key
\* nodes, one with an edge whose target is no node, one with a chain
LoadDocs ==
  { [nodes |-> <<NodeDoc("1", "arithmeticNode", 0, 0,
                   [a |-> Num(4), b |-> Num(0), op |-> Str("/"), result |-> Num(2)])>>],
    [edges |-> <<Edge("1", "2")>>],
    [nodes |-> <<NodeDoc("7", "codeNode", 0, 0, [code |-> Str(DefaultCode)])>>,
     edges |-> <<Edge("7", "9")>>],
    [nodes |-> <<NodeDoc("b", "arithmeticNode", 0, 0,
                   [a |-> Num(1), b |-> Num(-1), op |-> Str("-"), result |-> Null]),
                 NodeDoc("a", "codeNode", 0, 0, [code |-> Str(ThrowingCode)])>>,
     edges |-> <<Edge("a", "b")>>] }

\* what the slot may hold when the App starts: nothing, a document without the
\* key nodes, or the document an earlier session saved
StoredDocs ==
  { Null,
    [edges |-> <<Edge("1", "2")>>],
    [nodes |-> <<NodeDoc("1", "default", 250, 5, [label |-> Str("Start Node")]),
                 NodeDoc("2", "codeNode", 100, 100, [code |-> Str(DefaultCode)])>>,
     edges |-> <<Edge("1", "2")>>] }

(***************************************************************************)
(* The state after the construction of App (App.tsx:23-31): the graph is   *)
(* seeded from the slot and the effect of the first render has saved it.   *)
(***************************************************************************)
Boot(doc) ==
  LET m == Materialize(KeyOr(doc, "nodes", initialNodes), <<>>)
  IN /\ stored = doc
     /\ nodes = m.nodes
     /\ edges = KeyOr(doc, "edges", <<>>)
     /\ heap = m.heap
     /\ storage = Stringify(m.nodes, KeyOr(doc, "edges", <<>>), m.heap)
     /\ runs = <<>>
     /\ finished = None
     /\ clock = 0

Init == \E doc \in StoredDocs : Boot(doc)

\* the sequences of at most n elements of S
SeqsUpTo(S, n) == UNION {[1..k -> S] : k \in 0..n}

\* the sequences of at most n elements of S, no element twice
DistinctSeqsUpTo(S, n) ==
  {q \in SeqsUpTo(S, n) : \A i, j \in DOMAIN q : i # j => q[i] # q[j]}

\* the graphs of a session before this one, found in the slot: every list of at
\* most MaxNodes nodes with distinct ids of GraphIds and every list of at most
\* MaxGraphEdges edges between ids of GraphIds (an edge may have an end that is
\* no node, and may occur twice). The type of a node goes with its id.
GraphIds == {"A", "B", "C"}

GraphNode(id) ==
  CASE id = "A" -> NodeDoc("A", "codeNode", 0, 0, [code |-> Str(DefaultCode)])
    [] id = "B" -> NodeDoc("B", "arithmeticNode", 0, 0,
                     [a |-> Num(6), b |-> Num(3), op |-> Str("*"), result |-> Null])
    [] id = "C" -> NodeDoc("C", "default", 0, 0, [label |-> Str("C")])

GraphDocs ==
  { [nodes |-> [i \in DOMAIN ids |-> GraphNode(ids[i])],
     edges |-> [i \in DOMAIN es |-> Edge(es[i][1], es[i][2])]] :
      ids \in DistinctSeqsUpTo(GraphIds, MaxNodes),
      es \in SeqsUpTo(GraphIds \X GraphIds, MaxGraphEdges) }

InitGraph == \E doc \in GraphDocs : Boot(doc)

\* the arithmetic nodes of a session before this one: every pair of operands
\* from -MaxOperand to MaxOperand with every operator, with and without an
\* earlier result, and a code node after the arithmetic node
ArithmeticDocs ==
  { [nodes |-> <<NodeDoc("1", "arithmeticNode", 0, 0,
                   [a |-> Num(a), b |-> Num(b), op |-> Str(op), result |-> res]),
                 NodeDoc("2", "codeNode", 0, 0, [code |-> Str(DefaultCode)])>>,
     edges |-> <<>>] :
      a \in -MaxOperand..MaxOperand, b \in -MaxOperand..MaxOperand,
      op \in Operators, res \in {Null, Num(7)} }

InitArithmetic == \E doc \in ArithmeticDocs : Boot(doc)

\* the graphs with a cycle of a session before this one: an arithmetic node, a
\* code node and a default node, in this order, with every list of at most
\* MaxEdges edges between them that closes a cycle
CycleIds == {"1", "2", "3"}

IsCyclic(es) ==
  LET E == {<<es[i][1], es[i][2]>> : i \in DOMAIN es}
      reached(id) == UNION {{e[2]} : e \in {x \in E : x[1] = id}}
      twice(id) == UNION {reached(m) : m \in reached(id)}
      thrice(id) == UNION {reached(m) : m \in twice(id)}
  IN \E id \in CycleIds : id \in reached(id) \cup twice(id) \cup thrice(id)

CycleDocs ==
  { [nodes |-> <<NodeDoc("1", "arithmeticNode", 0, 0,
                   [a |-> Num(a), b |-> Num(b), op |-> Str(op), result |-> Null]),
                 NodeDoc("2", "codeNode", 0, 0, [code |-> Str(DefaultCode)]),
                 NodeDoc("3", "default", 0, 0, [label |-> Str("3")])>>,
     edges |-> [i \in DOMAIN es |-> Edge(es[i][1], es[i][2])]] :
      a \in -MaxOperand..MaxOperand, b \in -MaxOperand..MaxOperand,
      op \in Operators,
      es \in {q \in SeqsUpTo(CycleIds \X CycleIds, MaxEdges) : IsCyclic(q)} }

InitCycle == \E doc \in CycleDocs : Boot(doc)

(***************************************************************************)
(* The handlers of the user's actions. Every one of them that sets the     *)
(* nodes or the edges is followed by the effect of App.tsx:29-31, which    *)
(* saves the new graph in the slot.                                        *)
(***************************************************************************)
\* a faulty effect: the nodes and the edges are set and the slot is left as it is
CommitUnsaved(ns, es, h) ==
  /\ nodes' = ns
  /\ edges' = es
  /\ heap' = Collect(h, ns, runs')
  /\ storage' = storage

\* setNodes / setEdges, then the autosave effect
Commit(ns, es, h) ==
  /\ nodes' = ns
  /\ edges' = es
  /\ heap' = Collect(h, ns, runs')
  /\ storage' = Stringify(ns, es, h)

\* a handler of the user sets the nodes or the edges: no run is changed by it
Update(ns, es, h) ==
  /\ clock < MaxActions
  /\ clock' = clock + 1
  /\ runs' = runs
  /\ finished' = None
  /\ stored' = stored
  /\ Commit(ns, es, h)

\* the three buttons Add ... Node
AddNode(type, data) ==
  /\ Len(nodes) < MaxNodes
  /\ LET a == NewAddr(heap)
         n == [id |-> ToString(Len(nodes) + 1), type |-> type,
               position |-> data.position, data |-> a]
     IN Update(Append(nodes, n), edges, (a :> data.data) @@ heap)

addCodeNode ==
  AddNode("codeNode",
          [position |-> Position(100, 100), data |-> [code |-> Str(DefaultCode)]])

addArithmeticNode ==
  AddNode("arithmeticNode",
          [position |-> Position(200, 200),
           data |-> [a |-> Num(0), b |-> Num(0), op |-> Str("+"), result |-> Null]])

addHttpNode ==
  AddNode("httpNode",
          [position |-> Position(300, 300),
           data |-> [url |-> Str(""), method |-> Str("GET"), response |-> Null]])

\* addEdge(params, eds) of reactflow: a connection that exists already is not
\* added again
addEdge(params, eds) ==
  IF \E i \in 1..Len(eds) : eds[i] = params THEN eds ELSE Append(eds, params)

\* the user draws a connection between two nodes of the canvas
onConnect(source, target) ==
  /\ Len(edges) < MaxEdges
  /\ source \in NodeIds(nodes) /\ target \in NodeIds(nodes)
  /\ addEdge(Edge(source, target), edges) # edges
  /\ Update(nodes, addEdge(Edge(source, target), edges), heap)

\* the user deletes a node: reactflow sends the removal of the node to
\* onNodesChange and the removal of its edges to onEdgesChange
onNodesChange(id) ==
  /\ id \in NodeIds(nodes)
  /\ LET keepNode(n) == n.id # id
         keepEdge(e) == e.source # id /\ e.target # id
     IN Update(SelectSeq(nodes, keepNode), SelectSeq(edges, keepEdge), heap)

\* { ...n }: the fields of a node object as the keys of a new object
Spread(n) ==
  [id |-> Str(n.id), type |-> Str(n.type), position |-> n.position,
   data |-> Ref(n.data)]

\* the data object an edit gives node n: { code: value } in the code editor
\* (App.tsx:142); { ...n, data, key: value } in the inputs of the arithmetic and
\* http nodes (App.tsx:151-169), data being the data of the edited component
NewData(n, e) ==
  IF e.key = "code" THEN [code |-> e.value]
  ELSE Put(Put(Spread(n), "data", Ref(e.data)), e.key, e.value)

\* nds.map(n => n.id === id ? { ...n, data: ... } : n)
RECURSIVE MapNodes(_, _, _, _)
MapNodes(ns, h, id, e) ==
  IF ns = <<>> THEN [nodes |-> <<>>, heap |-> h]
  ELSE LET n == Head(ns)
           a == NewAddr(h)
           h2 == IF n.id = id THEN (a :> NewData(n, e)) @@ h ELSE h
           n2 == IF n.id = id THEN [n EXCEPT !.data = a] ELSE n
           rest == MapNodes(Tail(ns), h2, id, e)
       IN [nodes |-> <<n2>> \o rest.nodes, heap |-> rest.heap]

\* how deep the data objects of earlier edits are nested in the object at a
RECURSIVE Nesting(_, _)
Nesting(h, a) ==
  IF "data" \in DOMAIN h[a] /\ h[a]["data"].k = "ref"
  THEN 1 + Nesting(h, h[a]["data"].addr)
  ELSE 0

\* the onChange of an input of the component of node i
Edit(i, type, key, value) ==
  /\ i \in 1..Len(nodes)
  /\ nodes[i].type = type
  /\ key = "code" \/ Nesting(heap, nodes[i].data) < MaxNest
  /\ LET m == MapNodes(nodes, heap, nodes[i].id,
                       [key |-> key, value |-> value, data |-> nodes[i].data])
     IN Update(m.nodes, edges, m.heap)

editCode == \E i \in 1..MaxNodes, v \in Scripts : Edit(i, "codeNode", "code", Str(v))
editA == \E i \in 1..MaxNodes, v \in EditOperands : Edit(i, "arithmeticNode", "a", Num(v))
editOp == \E i \in 1..MaxNodes, v \in EditOperators : Edit(i, "arithmeticNode", "op", Str(v))
editB == \E i \in 1..MaxNodes, v \in EditOperands : Edit(i, "arithmeticNode", "b", Num(v))
editUrl == \E i \in 1..MaxNodes, v \in Urls : Edit(i, "httpNode", "url", Str(v))
editMethod == \E i \in 1..MaxNodes, v \in Methods : Edit(i, "httpNode", "method", Str(v))

\* reader.onload of loadFlow: the graph is replaced by the document's
loadFlow(flow) ==
  /\ LET m == Materialize(KeyOr(flow, "nodes", <<>>), heap)
     IN Update(m.nodes, KeyOr(flow, "edges", <<>>), m.heap)

(***************************************************************************)
(* executeFlow (App.tsx:65-108).                                           *)
(***************************************************************************)
\* Object.fromEntries(nodes.map(n => [n.id, n])): the last node of each id
nodeMap(ns) ==
  [id \in NodeIds(ns) |->
     ns[CHOOSE i \in 1..Len(ns) :
          ns[i].id = id /\ \A j \in (i + 1)..Len(ns) : ns[j].id # id]]

\* adj[e.source].push(e.target) throws a TypeError for an edge whose source is
\* the id of no node
BuildThrows(ns, es) == \E i \in 1..Len(es) : es[i].source \notin NodeIds(ns)

RECURSIVE TargetsOf(_, _)
TargetsOf(es, id) ==
  IF es = <<>> THEN <<>>
  ELSE (IF Head(es).source = id THEN <<Head(es).target>> ELSE <<>>)
       \o TargetsOf(Tail(es), id)

\* adj: for each node id the targets of its edges, in the order of the edges
adj(ns, es) == [id \in NodeIds(ns) |-> TargetsOf(es, id)]

\* indegree: for each node id the number of edges that enter it. (For a target
\* that is the id of no node the code makes an entry NaN, which no decrement
\* ever brings to 0: the model keeps no entry for it.)
indegree(ns, es) ==
  [id \in NodeIds(ns) |-> Cardinality({i \in 1..Len(es) : es[i].target = id})]

\* a faulty filter: the nodes of indegree 0, the last of the node list first
RECURSIVE ZeroIndegreeReversed(_, _)
ZeroIndegreeReversed(ns, indeg) ==
  IF ns = <<>> THEN <<>>
  ELSE ZeroIndegreeReversed(Tail(ns), indeg)
       \o (IF indeg[Head(ns).id] = 0 THEN <<Head(ns).id>> ELSE <<>>)

\* nodes.filter(n => indegree[n.id] === 0).map(n => n.id)
RECURSIVE ZeroIndegree(_, _)
ZeroIndegree(ns, indeg) ==
  IF ns = <<>> THEN <<>>
  ELSE (IF indeg[Head(ns).id] = 0 THEN <<Head(ns).id>> ELSE <<>>)
       \o ZeroIndegree(Tail(ns), indeg)

\* a faulty push: the target is pushed whatever its indegree
EnqueueAlways(queue, tgt, indeg) == Append(queue, tgt)

\* a faulty push: the test of the indegree never succeeds
EnqueueNever(queue, tgt, indeg) == queue

\* the push of a target whose indegree has come down to 0
Enqueue(queue, tgt, indeg) == IF indeg[tgt] = 0 THEN Append(queue, tgt) ELSE queue

\* for (const tgt of adj[id]) { indegree[tgt]--; if (indegree[tgt] === 0) queue.push(tgt); }
RECURSIVE Relax(_, _, _)
Relax(tgts, indeg, queue) ==
  IF tgts = <<>> THEN [indegree |-> indeg, queue |-> queue]
  ELSE LET tgt == Head(tgts)
       IN IF tgt \in DOMAIN indeg
          THEN LET d == [indeg EXCEPT ![tgt] = @ - 1]
               IN Relax(Tail(tgts), d, Enqueue(queue, tgt, d))
          ELSE Relax(Tail(tgts), indeg, queue)

\* while (queue.length) { const id = queue.shift(); order.push(id); ... }
RECURSIVE Kahn(_, _, _, _)
Kahn(queue, order, indeg, adjacency) ==
  IF queue = <<>> THEN order
  ELSE LET id == Head(queue)
           r == Relax(adjacency[id], indeg, Tail(queue))
       IN Kahn(r.queue, Append(order, id), r.indegree, adjacency)

\* the order executeFlow computes for the nodes ns and the edges es
Order(ns, es) ==
  Kahn(ZeroIndegree(ns, indegree(ns, es)), <<>>, indegree(ns, es), adj(ns, es))

Visit(id, outcome) == [id |-> id, outcome |-> outcome]

\* case 'codeNode': what new Function(node.data.code)() does. An error is
\* caught and written to the console.
RunCode(data) ==
  LET code == Get(data, "code")
  IN IF code.k = "string" /\ code.s \in FailingScripts THEN "caught" ELSE "returned"

\* case 'arithmeticNode': the value assigned to node.data.result, or the error
\* that leaves the run
RunArithmetic(data) ==
  EvalArithmetic(Get(data, "a"), Get(data, "op"), Get(data, "b"))

\* the loop `for (const id of order)` from index i on, until it ends, an
\* arithmetic node throws or an http node awaits its response
RECURSIVE Execute(_, _, _, _, _)
Execute(order, i, nm, h, log) ==
  IF i > Len(order)
  THEN [status |-> "done", pos |-> i, heap |-> h, executed |-> log]
  ELSE LET node == nm[order[i]]
           data == h[node.data]
       IN CASE node.type = "codeNode" ->
                 Execute(order, i + 1, nm, h, Append(log, Visit(node.id, RunCode(data))))
            [] node.type = "arithmeticNode" ->
                 LET r == RunArithmetic(data)
                 IN IF r.threw
                    THEN [status |-> "threw", pos |-> i, heap |-> h,
                          executed |-> Append(log, Visit(node.id, r.error))]
                    ELSE Execute(order, i + 1, nm,
                                 [h EXCEPT ![node.data] = Put(@, "result", r.value)],
                                 Append(log, Visit(node.id, "returned")))
            [] node.type = "httpNode" ->
                 [status |-> "awaiting", pos |-> i, heap |-> h,
                  executed |-> Append(log, Visit(node.id, "awaiting"))]
            [] OTHER -> Execute(order, i + 1, nm, h, Append(log, Visit(node.id, "none")))

\* what a call of executeFlow has come to: the arrays of its closure, the order
\* it computed, the index of the node it is at, and the nodes it has executed
RunRecord(ns, es, order, x) ==
  [nodes |-> ns, edges |-> es, order |-> order, pos |-> x.pos,
   executed |-> x.executed]

\* what is seen of a call that has ended: the nodes and edges it was called
\* with, the order it computed, the nodes it executed, and whether it returned
\* ("done") or threw
Ended(ns, es, order, status, log) ==
  [nodes |-> ns, edges |-> es, order |-> order, status |-> status,
   executed |-> log]

Remove(rs, r) == SubSeq(rs, 1, r - 1) \o SubSeq(rs, r + 1, Len(rs))

\* the run goes on to its next await or to its end; at its end,
\* setNodes([...nodes]) puts the array of its closure in the state
Proceed(r, ns, es, order, x) ==
  /\ runs' = IF x.status = "awaiting"
             THEN [i \in 1..Len(runs) \cup {r} |->
                     IF i = r THEN RunRecord(ns, es, order, x) ELSE runs[i]]
             ELSE Remove(runs, r)
  /\ finished' = IF x.status = "awaiting" THEN None
                 ELSE Ended(ns, es, order, x.status, x.executed)
  /\ IF x.status = "done"
     THEN Commit(ns, edges, x.heap)
     ELSE /\ heap' = Collect(x.heap, nodes, runs')
          /\ UNCHANGED <<nodes, edges, storage>>
  /\ stored' = stored

\* the button Execute Flow: the call runs up to its first await
executeFlow ==
  /\ Len(runs) < MaxRuns
  /\ clock < MaxActions
  /\ clock' = clock + 1
  /\ IF BuildThrows(nodes, edges)
     THEN /\ finished' = Ended(nodes, edges, <<>>, "threw", <<>>)
          /\ UNCHANGED <<nodes, edges, heap, storage, stored, runs>>
     ELSE LET order == Order(nodes, edges)
          IN Proceed(Len(runs) + 1, nodes, edges, order,
                     Execute(order, 1, nodeMap(nodes), heap, <<>>))

\* the response of fetch arrives, or its failure: node.data.response gets the
\* text of the body, or the message of the error, and the run goes on
SetLast(log, outcome) == [log EXCEPT ![Len(log)].outcome = outcome]

settle(r, outcome, text) ==
  /\ r \in 1..Len(runs)
  /\ clock' = clock
  /\ LET run == runs[r]
         nm == nodeMap(run.nodes)
         node == nm[run.order[run.pos]]
         h == [heap EXCEPT ![node.data] = Put(@, "response", Str(text))]
     IN Proceed(r, run.nodes, run.edges, run.order,
                Execute(run.order, run.pos + 1, nm, h, SetLast(run.executed, outcome)))

fetchResolves == \E r \in 1..MaxRuns, body \in Bodies : settle(r, "resolved", body)
fetchRejects == \E r \in 1..MaxRuns, msg \in FetchErrors : settle(r, "rejected", msg)


Next ==
  \/ addCodeNode
  \/ addArithmeticNode
  \/ addHttpNode
  \/ \E s \in NodeIds(nodes), t \in NodeIds(nodes) : onConnect(s, t)
  \/ \E id \in NodeIds(nodes) : onNodesChange(id)
  \/ editCode
  \/ editA
  \/ editOp
  \/ editB
  \/ editUrl
  \/ editMethod
  \/ \E flow \in LoadDocs : loadFlow(flow)
  \/ executeFlow
  \/ fetchResolves
  \/ fetchRejects

Spec == Init /\ [][Next]_vars

\* the runs of the graphs of GraphDocs, and of the arithmetic nodes of
\* ArithmeticDocs
GraphSpec == InitGraph /\ [][executeFlow]_vars
ArithmeticSpec == InitArithmetic /\ [][executeFlow]_vars

\* the runs of the graphs of CycleDocs
CycleSpec == InitCycle /\ [][executeFlow]_vars

(***************************************************************************)
(* Properties.                                                             *)
(***************************************************************************)
UniqueIds(ns) == \A i, j \in 1..Len(ns) : i # j => ns[i].id # ns[j].id

NoDanglingEdge(ns, es) ==
  \A i \in 1..Len(es) : es[i].source \in NodeIds(ns) /\ es[i].target \in NodeIds(ns)

EdgePairs(es) == {<<es[i].source, es[i].target>> : i \in 1..Len(es)}

\* the ids reached from the ids of S by one edge or more
RECURSIVE Descendants(_, _)
Descendants(S, E) ==
  LET next == S \cup {e[2] : e \in {x \in E : x[1] \in S}}
  IN IF next = S THEN S ELSE Descendants(next, E)

Successors(id, E) == Descendants({e[2] : e \in {x \in E : x[1] = id}}, E)

OnCycle(id, es) == id \in Successors(id, EdgePairs(es))

Acyclic(ns, es) == \A id \in NodeIds(ns) : ~OnCycle(id, es)

Positions(seq, x) == {i \in 1..Len(seq) : seq[i] = x}

VisitedIds(log) == [i \in 1..Len(log) |-> log[i].id]

\* every edge's source is before its target in seq, where both are in seq
Respects(seq, es) ==
  \A e \in EdgePairs(es) :
    \A j \in Positions(seq, e[2]) : \E i \in Positions(seq, e[1]) : i < j

ValidGraph(ns, es) == UniqueIds(ns) /\ NoDanglingEdge(ns, es) /\ Acyclic(ns, es)

IsChain(ns, es, x, y, z) ==
  /\ Cardinality({x, y, z}) = 3
  /\ NodeIds(ns) = {x, y, z}
  /\ EdgePairs(es) = {<<x, y>>, <<y, z>>}

\* C1: for an acyclic graph with unique node ids and no dangling edge, the
\* order computed by executeFlow holds every node exactly once with the source
\* of every edge before its target, a node is executed only after its
\* predecessors, and the order of a chain x -> y -> z is <<x, y, z>> whatever the
\* order of the nodes in the node list.
C1_TopologicalOrder ==
  (finished # None /\ ValidGraph(finished.nodes, finished.edges)) =>
    /\ Len(finished.order) = Len(finished.nodes)
    /\ \A id \in NodeIds(finished.nodes) :
         Cardinality(Positions(finished.order, id)) = 1
    /\ Respects(finished.order, finished.edges)
    /\ Respects(VisitedIds(finished.executed), finished.edges)
    /\ \A x, y, z \in NodeIds(finished.nodes) :
         IsChain(finished.nodes, finished.edges, x, y, z)
           => finished.order = <<x, y, z>>

\* a chain A -> B -> C declared in the order C, B, A has been run
C1_Witness ==
  /\ finished # None
  /\ [i \in 1..Len(finished.nodes) |-> finished.nodes[i].id] = <<"C", "B", "A">>
  /\ finished.edges = <<Edge("B", "C"), Edge("A", "B")>>
  /\ finished.order = <<"A", "B", "C">>
  /\ VisitedIds(finished.executed) = <<"A", "B", "C">>

\* the data object of the node of the state with index i
DataAt(i) == heap[nodes[i].data]

\* C2: when the graph has a cycle, the run executes no node. (The claim has the
\* run report CycleDetected as well; executeFlow has no such outcome, it returns
\* as for any other graph.)
C2_CycleAbortsRun ==
  (finished # None /\ ~Acyclic(finished.nodes, finished.edges)) =>
    finished.executed = <<>>

\* C3: a failure of one node does not halt the run: a run that has computed its
\* order ends with every node of the order executed and with its write-back.
C3_FailureNeverHalts ==
  (finished # None /\ ~BuildThrows(finished.nodes, finished.edges)) =>
    /\ VisitedIds(finished.executed) = finished.order
    /\ finished.status = "done"

\* C4: adding a node to a node list with unique ids, or deleting one from it,
\* leaves the ids unique.
C4_UniqueNodeIds ==
  [][ ( /\ UniqueIds(nodes)
        /\ \/ addCodeNode \/ addArithmeticNode \/ addHttpNode
           \/ \E id \in NodeIds(nodes) : onNodesChange(id) )
      => UniqueIds(nodes') ]_vars

\* the arithmetic node of a document of ArithmeticDocs, before the run and in
\* the state
OperandsOf(doc) == doc.nodes[1].data.props
IsDivisionByZero(d) == d.op = Str("/") /\ d.b = Num(0)

\* C5: the run of an arithmetic node with operator / and operandB 0 records the
\* error "division by zero" on the node and leaves its result as it was; no
\* infinite or NaN value is ever stored as the result.
C5_DivisionByZero ==
  (finished # None /\ IsDivisionByZero(OperandsOf(stored))) =>
    /\ Get(DataAt(1), "lastError") = Str("division by zero")
    /\ Get(DataAt(1), "result") = OperandsOf(stored).result
    /\ Get(DataAt(1), "result").k \notin {"NaN", "Infinity"}

\* C6: for all operands a and b and every operator of + - * / but a division
\* by zero, the run of an arithmetic node stores result = a <operator> b and
\* ends without error.
C6_ArithmeticResult ==
  (finished # None /\ ~IsDivisionByZero(OperandsOf(stored))) =>
    /\ finished.status = "done"
    /\ Get(DataAt(1), "result") =
         BinaryOp(OperandsOf(stored).op.s, OperandsOf(stored).a, OperandsOf(stored).b)

\* C7: when the script of a code node fails, the message of the error is in
\* the lastError of that node after the run.
C7_ScriptErrorRecorded ==
  (finished # None /\ finished.status = "done") =>
    \A i \in 1..Len(finished.executed) :
      finished.executed[i].outcome = "caught" =>
        Get(heap[nodeMap(nodes)[finished.executed[i].id].data], "lastError").k
          = "string"

\* the http node run r awaits the response of
Awaited(r) == nodeMap(runs[r].nodes)[runs[r].order[runs[r].pos]]

\* C8: when the request of an http node fails, the response of the node keeps
\* the value it had and the message of the failure is in its lastError.
C8_FailedRequestKeepsResponse ==
  [][ \A r \in 1..Len(runs), msg \in FetchErrors :
        settle(r, "rejected", msg) =>
          /\ Get(heap'[Awaited(r).data], "response")
               = Get(heap[Awaited(r).data], "response")
          /\ Get(heap'[Awaited(r).data], "lastError") = Str(msg) ]_vars

\* C9: the load of a document without the key nodes or without the key edges
\* is rejected and leaves the graph as it was.
C9_MissingKeyRejected ==
  [][ \A flow \in LoadDocs :
        (loadFlow(flow) /\ ~({"nodes", "edges"} \subseteq DOMAIN flow))
          => (nodes' = nodes /\ edges' = edges) ]_vars

\* C10: no operation gives the graph an edge whose source or target is the id
\* of no node.
C10_NoDanglingEdge ==
  [][ NoDanglingEdge(nodes, edges) => NoDanglingEdge(nodes', edges') ]_vars

\* the ids of a node list, in the order of the list
IdsOf(ns) == [i \in 1..Len(ns) |-> ns[i].id]

HasIncoming(id, es) == \E i \in 1..Len(es) : es[i].target = id

\* the ids of the nodes no edge enters, in the order of the node list
Sources(ns, es) ==
  LET free(id) == ~HasIncoming(id, es)
  IN SelectSeq(IdsOf(ns), free)

\* C11: the order a run computes starts with the nodes of indegree 0, in the
\* order they have in the node list, and every node after them has an edge that
\* enters it; and a run on the node ids and edges of the run before it computes
\* the order that run computed.
C11_DeclarationOrder ==
  /\ []( (finished # None /\ ~BuildThrows(finished.nodes, finished.edges)) =>
          LET zs == Sources(finished.nodes, finished.edges)
          IN /\ Len(finished.order) >= Len(zs)
             /\ SubSeq(finished.order, 1, Len(zs)) = zs
             /\ \A i \in (Len(zs) + 1)..Len(finished.order) :
                  HasIncoming(finished.order[i], finished.edges) )
  /\ [][ ( /\ finished # None /\ finished' # None
           /\ IdsOf(finished'.nodes) = IdsOf(finished.nodes)
           /\ finished'.edges = finished.edges )
         => finished'.order = finished.order ]_vars

\* the nodes C, A, B with the edge A -> B have been run twice: C and A, of
\* indegree 0, come first in the order of the list
C11_Witness ==
  /\ finished # None
  /\ clock = 2
  /\ IdsOf(finished.nodes) = <<"C", "A", "B">>
  /\ finished.edges = <<Edge("A", "B")>>
  /\ finished.order = <<"C", "A", "B">>

\* the slot holds the document of the nodes and edges of the state
WriteThrough == storage = Stringify(nodes, edges, heap)

\* a step that sets the nodes or the edges: a handler of the user, or the end
\* of a run with its write-back
Mutation ==
  \/ addCodeNode \/ addArithmeticNode \/ addHttpNode
  \/ \E s \in NodeIds(nodes), t \in NodeIds(nodes) : onConnect(s, t)
  \/ \E id \in NodeIds(nodes) : onNodesChange(id)
  \/ editCode \/ editA \/ editOp \/ editB \/ editUrl \/ editMethod
  \/ \E flow \in LoadDocs : loadFlow(flow)
  \/ /\ executeFlow \/ fetchResolves \/ fetchRejects
     /\ finished' # None
     /\ finished'.status = "done"

\* C12: after every step that sets the nodes or the edges (add, connect,
\* delete, edit, load, write-back of a run) the slot holds the document of the
\* nodes and edges of the state; and when the App starts, the nodes and the
\* edges are those of the document the slot holds.
C12_WriteThrough ==
  /\ []( clock = 0 =>
          /\ "nodes" \in DOMAIN stored => storage.nodes = stored.nodes
          /\ "edges" \in DOMAIN stored => edges = stored.edges
          /\ WriteThrough )
  /\ [][ Mutation => WriteThrough' ]_vars

\* a run has ended with its write-back and the slot holds a result it computed
C12_Witness ==
  /\ finished # None
  /\ finished.status = "done"
  /\ \E i \in 1..Len(nodes) :
       /\ nodes[i].type = "arithmeticNode"
       /\ Get(heap[nodes[i].data], "result") = Num(0)
       /\ storage.nodes[i].data.props.result = Num(0)

\* a value with the objects it refers to written out
RECURSIVE Deep(_, _)
Deep(v, h) ==
  IF v.k = "ref"
  THEN Obj([x \in DOMAIN h[v.addr] |-> Deep(h[v.addr][x], h)])
  ELSE v

\* the ids, types and data of a node list
Content(ns, h) ==
  [i \in 1..Len(ns) |->
     [id |-> ns[i].id, type |-> ns[i].type, data |-> Deep(Ref(ns[i].data), h)]]

\* the graph that the load of a document gives
Reloaded(doc) ==
  LET m == Materialize(KeyOr(doc, "nodes", <<>>), <<>>)
  IN [nodes |-> Content(m.nodes, m.heap), edges |-> KeyOr(doc, "edges", <<>>)]

\* C13: the document of the graph of the state, loaded back, gives a graph
\* with the node ids, types, data (the results of the runs with them) and edges
\* of the state.
C13_RoundTrip ==
  Reloaded(Stringify(nodes, edges, heap))
    = [nodes |-> Content(nodes, heap), edges |-> edges]

ResultFields == {"result", "response", "lastError"}
ExecutableTypes == {"codeNode", "arithmeticNode", "httpNode"}

\* the data object at address a of heap h without its result fields
Inputs(h, a) ==
  [x \in DOMAIN h[a] \ ResultFields |-> Deep(h[a][x], h)]

\* from the nodes ns with heap h to the nodes ms with heap g, nothing has
\* changed but result fields of nodes of the executable types
OnlyResults(ns, h, ms, g) ==
  /\ Len(ms) = Len(ns)
  /\ \A i \in 1..Len(ns) :
       /\ ms[i].id = ns[i].id
       /\ ms[i].type = ns[i].type
       /\ ms[i].position = ns[i].position
       /\ Inputs(g, ms[i].data) = Inputs(h, ns[i].data)
       /\ ns[i].type \notin ExecutableTypes =>
            Deep(Ref(ms[i].data), g) = Deep(Ref(ns[i].data), h)

\* a step of a run that no action of the user has come between: the call of
\* executeFlow, or the arrival of a response at a run whose closure still holds
\* the nodes and edges of the state
RunStep ==
  \/ executeFlow
  \/ \E r \in 1..Len(runs), text \in Bodies \cup FetchErrors, outcome \in {"resolved", "rejected"} :
       /\ settle(r, outcome, text)
       /\ runs[r].nodes = nodes
       /\ runs[r].edges = edges

\* C14: a step of a run that no action of the user has come between leaves the
\* nodes, their order, ids, types, positions and input fields, the data of the
\* nodes of other types than code, arithmetic and http, and the edges as they
\* were: only result fields change.
C14_RunFrame ==
  [][ RunStep => (OnlyResults(nodes, heap, nodes', heap') /\ edges' = edges) ]_vars

\* a run of an http node and an arithmetic node has ended with its write-back:
\* the response and the result are in the data of the nodes
C14_Witness ==
  /\ finished # None
  /\ finished.status = "done"
  /\ finished.nodes = nodes
  /\ \E i, j \in 1..Len(nodes) :
       /\ nodes[i].type = "httpNode"
       /\ Get(heap[nodes[i].data], "response") = Str("body")
       /\ nodes[j].type = "arithmeticNode"
       /\ Get(heap[nodes[j].data], "result") = Num(0)

\* the nodes the run started by the last step has begun to execute
Started ==
  IF finished' # None THEN finished'.executed ELSE runs'[Len(runs')].executed

\* C15: while a run awaits the response of an http node no other node begins
\* to execute: the run itself is at the node it awaits, with no later node
\* executed, and a click on Execute Flow in the meantime executes no node.
C15_NoConcurrentNodes ==
  /\ [](\A r \in 1..Len(runs) :
          /\ Len(runs[r].executed) = runs[r].pos
          /\ runs[r].executed[runs[r].pos].outcome = "awaiting")
  /\ [][ (runs # <<>> /\ executeFlow) => Started = <<>> ]_vars

\* the ids of the nodes that a run has not placed in its order
NeverOrdered(run) ==
  {id \in NodeIds(run.nodes) : Positions(run.order, id) = {}}

\* the queue of the run has emptied with fewer nodes ordered than the graph has
CameShort(run) ==
  /\ run # None
  /\ ~BuildThrows(run.nodes, run.edges)
  /\ Len(run.order) < Len(run.nodes)

\* C16 as stated: when the queue empties with fewer nodes ordered than the
\* graph has, every node that was not placed in the order lies on a directed
\* cycle of the edges.
C16_UnorderedOnCycle ==
  CameShort(finished) =>
    \A id \in NeverOrdered(finished) : OnCycle(id, finished.edges)

\* C16 as amended: when the queue empties with fewer nodes ordered than the
\* graph has, every node that was not placed in the order lies on a directed
\* cycle of the edges or is reached by a path from a node that lies on one.
C16_UnorderedBehindCycle ==
  CameShort(finished) =>
    \A id \in NeverOrdered(finished) :
      \E c \in NodeIds(finished.nodes) :
        /\ OnCycle(c, finished.edges)
        /\ id \in Successors(c, EdgePairs(finished.edges))

\* the graph A -> B, B -> A, B -> C has been run: C is not placed in the order
\* and lies on no cycle
C16_Witness ==
  /\ CameShort(finished)
  /\ NodeIds(finished.nodes) = {"A", "B", "C"}
  /\ EdgePairs(finished.edges) = {<<"A", "B">>, <<"B", "A">>, <<"B", "C">>}
  /\ "C" \in NeverOrdered(finished)
  /\ ~OnCycle("C", finished.edges)

\* the ids of the nodes that lie on no cycle and are reached from none
Clear(ns, es) ==
  {id \in NodeIds(ns) :
     ~\E c \in NodeIds(ns) :
        OnCycle(c, es) /\ id \in Successors(c, EdgePairs(es))}

\* C17: a run on a graph with a cycle (unique ids, no dangling edge) executes
\* the nodes that lie on no cycle and are reached from none, all of them, each
\* once, in an order that respects the edges, and no other node. (The code
\* keeps no report on a node, so the model has none to check.)
C17_CycleRunsTheRest ==
  ( /\ finished # None
    /\ UniqueIds(finished.nodes)
    /\ NoDanglingEdge(finished.nodes, finished.edges)
    /\ ~Acyclic(finished.nodes, finished.edges) ) =>
    /\ \A id \in NodeIds(finished.nodes) :
         Cardinality(Positions(VisitedIds(finished.executed), id))
           = IF id \in Clear(finished.nodes, finished.edges) THEN 1 ELSE 0
    /\ Respects(VisitedIds(finished.executed), finished.edges)

\* C18: a run on a graph with valid edges never stops without its write-back:
\* when it has ended it has returned, and the nodes of its closure, with the
\* results, are the nodes of the state. (A run that awaits a response is in
\* runs until the response or the failure arrives; the scheduler of a run is
\* one step, which always ends.)
C18_RunFinishes ==
  (finished # None /\ NoDanglingEdge(finished.nodes, finished.edges)) =>
    (finished.status = "done" /\ nodes = finished.nodes)

\* C19: what the user has done to the graph while a run awaited a response is
\* in the graph after the run: the step that resumes the run, its write-back
\* at the end included, changes result fields only and leaves the nodes of the
\* state, their input fields and the edges as the user made them.
C19_MutationsSurvive ==
  [][ (fetchResolves \/ fetchRejects) =>
        (OnlyResults(nodes, heap, nodes', heap') /\ edges' = edges) ]_vars

\* the inputs of the components of the arithmetic and http nodes, with the
\* values the user gives them
InputEdits ==
  {[type |-> "arithmeticNode", key |-> k, value |-> Num(v)] :
     k \in {"a", "b"}, v \in EditOperands}
  \cup {[type |-> "arithmeticNode", key |-> "op", value |-> Str(v)] : v \in EditOperators}
  \cup {[type |-> "httpNode", key |-> "url", value |-> Str(v)] : v \in Urls}
  \cup {[type |-> "httpNode", key |-> "method", value |-> Str(v)] : v \in Methods}

\* C20: the edit of one input of an arithmetic node or of an http node gives
\* that field its new value and leaves every other field of the data of the
\* node (the other operand, the operator, the method, the url, the result or
\* response) as it was, so that the node can still be executed.
C20_EditChangesOneField ==
  [][ \A i \in 1..Len(nodes), e \in InputEdits :
        Edit(i, e.type, e.key, e.value) =>
          /\ Get(heap'[nodes'[i].data], e.key) = e.value
          /\ \A k \in DOMAIN heap[nodes[i].data] \ {e.key} :
               Get(heap'[nodes'[i].data], k) = heap[nodes[i].data][k] ]_vars

====
